---- MODULE Spec2Model ----
(***************************************************************************)
(* T-invariant checker (invariant_checker/invariant_checker_core.py).      *)
(* A transition log is a string; it is modelled as a sequence of           *)
(* one-character strings.  The compiled pattern T_INVARIANT_REGEX is       *)
(* modelled by what re.search computes for it: the leftmost start, lazy    *)
(* gaps (the shortest gap from which the rest of the pattern still         *)
(* matches) and ordered alternation.  Positions are 1-based; a span        *)
(* <<b, e>> covers the characters b .. e-1.                                *)
(***************************************************************************)
EXTENDS Integers, Sequences, FiniteSets

\* Every variable is a function of the call of check_invariants it belongs to:
\*   strands          the token strands the call's input was woven from
\*   transition_log   the argument of check_invariants
\*   remaining_log    the local remaining_log of the loop
\*   invariant_counts the locals invariant_1_count, invariant_2_count, invariant_3_count
\*   iterations       how many times the loop body consumed a match
\*   match            the re.Match of the latest search, with the string searched
\*   pc               "loop" while the while-loop runs, "done" once it returned
\*   result           the InvariantCheckResult returned
\* and, for a call made by the package's main():
\*   ui               the flags of the UI object main() builds
\*   written          the parts of the report written to the stream, in order
\*   exit_status      the status the process ended with, NotExited before that
VARIABLES strands, transition_log, remaining_log, invariant_counts, iterations,
          match, pc, result, ui, written, exit_status

vars == <<strands, transition_log, remaining_log, invariant_counts, iterations,
          match, pc, result, ui, written, exit_status>>

----------------------------------------------------------------------------
(* Tokens of the pattern, as character sequences.                          *)

T0 == <<"T", "0">>
T1 == <<"T", "1">>
T2 == <<"T", "2">>
T3 == <<"T", "3">>
T4 == <<"T", "4">>
T5 == <<"T", "5">>
T6 == <<"T", "6">>
T7 == <<"T", "7">>
T8 == <<"T", "8">>
T9 == <<"T", "9">>
T10 == <<"T", "1", "0">>
T11 == <<"T", "1", "1">>

Digits == {"0", "1", "2", "3", "4", "5", "6", "7", "8", "9"}

\* str.strip() with no argument removes these (the ones the model's streams use)
Whitespace == {" ", "\n"}

\* the second alternative written with its two anchors exchanged
RegexBranches_T6_before_T5 == << <<T2, T3, T4>>, <<T6, T5>>, <<T7, T8, T9, T10>> >>

\* the three alternatives of the pattern's middle group, in pattern order
RegexBranches == << <<T2, T3, T4>>, <<T5, T6>>, <<T7, T8, T9, T10>> >>

\* group number of the first anchor of each alternative: (T2)=6, (T5)=11, (T7)=14
BranchFirstGroup == <<6, 11, 14>>

\* off by one: the group of (T5) instead of the group of (T4)
_T4_GROUP_INDEX_off_by_one == 10 + 1

_T4_GROUP_INDEX == 10
\* the group of (T7), the one after (T6), instead of the group of (T6)
_T6_GROUP_INDEX_of_T7 == 13 + 1

_T6_GROUP_INDEX == 13
_T10_GROUP_INDEX == 20

\* the gap in front of (T11), group 21, forgotten
_INTER_TOKEN_GROUP_INDICES_without_tail == <<2, 4, 7, 9, 12, 15, 17, 19>>

_INTER_TOKEN_GROUP_INDICES == <<2, 4, 7, 9, 12, 15, 17, 19, 21>>

INVARIANT_DEFINITIONS ==
    << <<T0, T1, T2, T3, T4, T11>>,
       <<T0, T1, T5, T6, T11>>,
       <<T0, T1, T7, T8, T9, T10, T11>> >>

\* a group that did not take part in the match (match.group(i) is None)
None == <<0, 0>>

----------------------------------------------------------------------------
(* Helpers on sequences.                                                   *)

Min(S) == CHOOSE x \in S : \A y \in S : x <= y

RECURSIVE Flatten(_)
Flatten(ss) == IF ss = <<>> THEN <<>> ELSE Head(ss) \o Flatten(Tail(ss))

Range(f) == {f[i] : i \in DOMAIN f}

\* the literal tok stands in s at position p
At(s, p, tok) ==
    /\ p >= 1
    /\ p + Len(tok) - 1 <= Len(s)
    /\ \A j \in 1..Len(tok) : s[p + j - 1] = tok[j]

\* the positions at which tok stands in s (those p with At(s, p, tok))
Occ(s, tok) ==
    LET n == Len(tok)
        first == tok[1]
    IN  {p \in 1..(Len(s) - n + 1) : s[p] = first /\ \A j \in 2..n : s[p + j - 1] = tok[j]}

----------------------------------------------------------------------------
(* T_INVARIANT_REGEX.search: (T0)(.*?)(T1)(.*?)((T2)..|(T5)..|(T7)..)(.*?)(T11) *)
(* with re.S, so a gap matches any characters.                             *)

\* alternative k of group 5 followed by the tail (.*?)(T11)
BranchChain(k) == RegexBranches[k] \o <<T11>>

\* the gaps written (.+?) instead of (.*?): a gap takes at least one character
RECURSIVE AnchoredAt_nonempty_gap(_, _, _)
AnchoredAt_nonempty_gap(s, chain, j) ==
    IF j = Len(chain)
    THEN <<Occ(s, chain[j])>>
    ELSE LET rest == AnchoredAt_nonempty_gap(s, chain, j + 1)
         IN  <<{p \in Occ(s, chain[j]) : \E q \in rest[1] : q > p + Len(chain[j])}>>
             \o rest

\* for each j, the positions at which chain[j], (.*?), chain[j+1], ... matches
\* with chain[j] standing exactly there (element 1 of the result is for
\* chain[j], the last element for the last anchor of the chain)
RECURSIVE AnchoredAt(_, _, _)
AnchoredAt(s, chain, j) ==
    IF j = Len(chain)
    THEN <<Occ(s, chain[j])>>
    ELSE LET rest == AnchoredAt(s, chain, j + 1)
         IN  <<{p \in Occ(s, chain[j]) : \E q \in rest[1] : q >= p + Len(chain[j])}>>
             \o rest

\* greedy gaps, (.*) instead of (.*?): the next anchor is taken at the
\* greatest position from which the remaining chain can be completed
RECURSIVE LazyPositions_greedy(_, _, _, _)
LazyPositions_greedy(chain, anchored, j, p) ==
    IF j = Len(chain)
    THEN <<p>>
    ELSE <<p>> \o LazyPositions_greedy(chain, anchored, j + 1,
                     CHOOSE q \in anchored[j + 1] :
                        /\ q >= p + Len(chain[j])
                        /\ \A r \in anchored[j + 1] : r <= q)

\* a lazy gap grows one character at a time until the rest of the pattern
\* matches: the next anchor is taken at the least position from which the
\* remaining chain can still be completed.  anchored = AnchoredAt(s, chain, 1)
RECURSIVE LazyPositions(_, _, _, _)
LazyPositions(chain, anchored, j, p) ==
    IF j = Len(chain)
    THEN <<p>>
    ELSE <<p>> \o LazyPositions(chain, anchored, j + 1,
                     Min({q \in anchored[j + 1] : q >= p + Len(chain[j])}))

\* for each alternative k, the sets AnchoredAt of alternative k followed by
\* (.*?)(T11): Branches(s)[k][1] are the positions where that matches
Branches(s) == [k \in 1..3 |-> AnchoredAt(s, BranchChain(k), 1)]

\* positions where ((T2)..|(T5)..|(T7)..)(.*?)(T11) matches
AfterT1(branches) == branches[1][1] \cup branches[2][1] \cup branches[3][1]

\* positions where (T1)(.*?)(...) matches, given those where (...) matches
FromT1(s, afterT1) == {p \in Occ(s, T1) : \E q \in afterT1 : q >= p + Len(T1)}

\* re.match instead of re.search: only a match at the start of the string
FromT0_at_start_only(s, fromT1) ==
    {p \in Occ(s, T0) : p = 1 /\ \E q \in fromT1 : q >= p + Len(T0)}

\* positions where the whole pattern matches, given those where (T1)... matches
FromT0(s, fromT1) == {p \in Occ(s, T0) : \E q \in fromT1 : q >= p + Len(T0)}

\* the value of `match` when the search found nothing, or before any search
NoMatch == [string |-> <<>>, start |-> 0, end |-> 0, groups |-> [i \in 1..22 |-> None]]

\* at a given position the alternatives are tried left to right
FirstBranchAt(branches, p) == Min({k \in 1..3 : p \in branches[k][1]})

\* the groups of the match whose T0, T1 stand at p0, p1, whose alternative k
\* starts at pm, with pos the positions of that alternative's anchors and of T11
MatchGroups(p0, p1, pm, k, pos) ==
    LET chain == BranchChain(k)
        n == Len(chain)
        g == BranchFirstGroup[k]
        endOf(j) == pos[j] + Len(chain[j])
    IN  [i \in 1..22 |->
            IF i = 1 THEN <<p0, p0 + Len(T0)>>
            ELSE IF i = 2 THEN <<p0 + Len(T0), p1>>
            ELSE IF i = 3 THEN <<p1, p1 + Len(T1)>>
            ELSE IF i = 4 THEN <<p1 + Len(T1), pm>>
            ELSE IF i = 5 THEN <<pm, endOf(n - 1)>>
            ELSE IF i = 21 THEN <<endOf(n - 1), pos[n]>>
            ELSE IF i = 22 THEN <<pos[n], endOf(n)>>
            ELSE IF i >= g /\ i <= g + 2 * (n - 2)
                 THEN IF (i - g) % 2 = 0
                      THEN <<pos[(i - g) \div 2 + 1], endOf((i - g) \div 2 + 1)>>
                      ELSE <<endOf((i - g + 1) \div 2), pos[(i - g + 1) \div 2 + 1]>>
                 ELSE None]

\* the scan run from the right: the match is taken from the last possible start
search_from_last_start(s) ==
    LET branches == Branches(s)
        afterT1 == AfterT1(branches)
        fromT1 == FromT1(s, afterT1)
        starts == FromT0(s, fromT1)
    IN  IF starts = {}
        THEN NoMatch
        ELSE LET p0 == CHOOSE p \in starts : \A q \in starts : q <= p
                 p1 == Min({q \in fromT1 : q >= p0 + Len(T0)})
                 pm == Min({q \in afterT1 : q >= p1 + Len(T1)})
                 k == FirstBranchAt(branches, pm)
                 pos == LazyPositions(BranchChain(k), branches[k], 1, pm)
             IN  [string |-> s,
                  start |-> p0,
                  end |-> pos[Len(pos)] + Len(T11),
                  groups |-> MatchGroups(p0, p1, pm, k, pos)]

\* re.search scans the start positions left to right and stops at the first
\* one from which the pattern matches
search(s) ==
    LET branches == Branches(s)
        afterT1 == AfterT1(branches)
        fromT1 == FromT1(s, afterT1)
        starts == FromT0(s, fromT1)
    IN  IF starts = {}
        THEN NoMatch
        ELSE LET p0 == Min(starts)
                 p1 == Min({q \in fromT1 : q >= p0 + Len(T0)})
                 pm == Min({q \in afterT1 : q >= p1 + Len(T1)})
                 k == FirstBranchAt(branches, pm)
                 pos == LazyPositions(BranchChain(k), branches[k], 1, pm)
             IN  [string |-> s,
                  start |-> p0,
                  end |-> pos[Len(pos)] + Len(T11),
                  groups |-> MatchGroups(p0, p1, pm, k, pos)]

\* match.group(i) or ""
GroupText(s, m, i) ==
    IF m.groups[i] = None THEN <<>> ELSE SubSeq(s, m.groups[i][1], m.groups[i][2] - 1)

\* the ids of the second and third alternative exchanged
_detect_invariant_exchanged(m) ==
    IF m.groups[_T4_GROUP_INDEX] # None THEN 1
    ELSE IF m.groups[_T6_GROUP_INDEX] # None THEN 3
    ELSE IF m.groups[_T10_GROUP_INDEX] # None THEN 2
    ELSE 0

_detect_invariant(m) ==
    IF m.groups[_T4_GROUP_INDEX] # None THEN 1
    ELSE IF m.groups[_T6_GROUP_INDEX] # None THEN 2
    ELSE IF m.groups[_T10_GROUP_INDEX] # None THEN 3
    ELSE 0

\* the gaps joined twice over: every kept character comes back doubled
_collect_unmatched_groups_twice(s, m) ==
    Flatten([i \in 1..Len(_INTER_TOKEN_GROUP_INDICES) |->
                GroupText(s, m, _INTER_TOKEN_GROUP_INDICES[i])])
    \o Flatten([i \in 1..Len(_INTER_TOKEN_GROUP_INDICES) |->
                GroupText(s, m, _INTER_TOKEN_GROUP_INDICES[i])])

_collect_unmatched_groups(s, m) ==
    Flatten([i \in 1..Len(_INTER_TOKEN_GROUP_INDICES) |->
                GroupText(s, m, _INTER_TOKEN_GROUP_INDICES[i])])

\* the slice before the match taken one character too long
consume_match_long_prefix(log, m) ==
    IF m = NoMatch
    THEN <<log, 0, FALSE>>
    ELSE <<SubSeq(log, 1, m.start)
             \o _collect_unmatched_groups(log, m)
             \o SubSeq(log, m.end, Len(log)),
           _detect_invariant(m),
           TRUE>>

\* the matched text kept in front of its gaps instead of being replaced by them
consume_match_keeps_match(log, m) ==
    IF m = NoMatch
    THEN <<log, 0, FALSE>>
    ELSE <<SubSeq(log, 1, m.end - 1)
             \o _collect_unmatched_groups(log, m)
             \o SubSeq(log, m.end, Len(log)),
           _detect_invariant(m),
           TRUE>>

\* consume_one_invariant after its search: <<remaining_log, matched_invariant,
\* did_consume>> for the match m found in log
consume_match(log, m) ==
    IF m = NoMatch
    THEN <<log, 0, FALSE>>
    ELSE <<SubSeq(log, 1, m.start - 1)
             \o _collect_unmatched_groups(log, m)
             \o SubSeq(log, m.end, Len(log)),
           _detect_invariant(m),
           TRUE>>

\* the stream dropped, instead of returned as it is, when nothing matches
consume_one_invariant_drops_unmatched(log) ==
    IF search(log) = NoMatch THEN <<<<>>, 0, FALSE>> ELSE consume_match(log, search(log))

consume_one_invariant(log) == consume_match(log, search(log))

\* str.strip()
RECURSIVE lstrip(_)
lstrip(s) == IF s # <<>> /\ Head(s) \in Whitespace THEN lstrip(Tail(s)) ELSE s

RECURSIVE rstrip(_)
rstrip(s) ==
    IF s # <<>> /\ s[Len(s)] \in Whitespace THEN rstrip(SubSeq(s, 1, Len(s) - 1)) ELSE s

\* lstrip() written where strip() was meant
strip_left_only(s) == lstrip(s)

strip(s) == rstrip(lstrip(s))

\* leftover_length taken from the stream before it is trimmed
InvariantCheckResult_length_untrimmed(log, remaining, counts) ==
    [was_fully_consumed |-> strip(remaining) = <<>>,
     leftover_transitions |-> strip(remaining),
     invariant_counts |-> counts,
     log_length |-> Len(log),
     leftover_length |-> Len(remaining)]

\* the record check_invariants returns for the final remaining_log and counts
InvariantCheckResult(log, remaining, counts) ==
    [was_fully_consumed |-> strip(remaining) = <<>>,
     leftover_transitions |-> strip(remaining),
     invariant_counts |-> counts,
     log_length |-> Len(log),
     leftover_length |-> Len(strip(remaining))]

\* the loop of check_invariants, from a remaining_log and the counts so far
RECURSIVE reduce(_, _, _)
reduce(log, remaining, counts) ==
    LET r == consume_one_invariant(remaining)
    IN  IF ~r[3]
        THEN InvariantCheckResult(log, r[1], counts)
        ELSE reduce(log, r[1],
                    [k \in 1..3 |-> IF k = r[2] THEN counts[k] + 1 ELSE counts[k]])

check_invariants(log) == reduce(log, log, <<0, 0, 0>>)

\* the package's main(): the text read is handed to check_invariants as read
main(content) == check_invariants(content)

\* str.splitlines(), for the line break "\n"
RECURSIVE splitlines(_)
splitlines(text) ==
    IF text = <<>> THEN <<>>
    ELSE LET breaks == {i \in 1..Len(text) : text[i] = "\n"}
         IN  IF breaks = {} THEN <<text>>
             ELSE <<SubSeq(text, 1, Min(breaks) - 1)>>
                  \o splitlines(SubSeq(text, Min(breaks) + 1, Len(text)))

\* "".join(part.strip() for part in text.splitlines())
flat(text) ==
    LET parts == splitlines(text)
    IN  Flatten([i \in 1..Len(parts) |-> strip(parts[i])])

----------------------------------------------------------------------------
(* The stand-alone engine of scripts/invariant_checker.py.  Its _PATTERN   *)
(* is the same expression with the alternation written as a non-capturing  *)
(* group, so it has 21 groups: (T0)=1, (T1)=3, (T2)=5, (T3)=7, (T4)=9,     *)
(* (T5)=10, (T6)=12, (T7)=13, (T8)=15, (T9)=17, (T10)=19, (T11)=21, the     *)
(* gaps in between.                                                        *)

\* group number of the first anchor of each alternative of _PATTERN
_PATTERN_BranchFirstGroup == <<5, 10, 13>>

\* the groups of a match of _PATTERN, from the positions of its anchors
_PATTERN_MatchGroups(p0, p1, pm, k, pos) ==
    LET chain == BranchChain(k)
        n == Len(chain)
        g == _PATTERN_BranchFirstGroup[k]
        endOf(j) == pos[j] + Len(chain[j])
    IN  [i \in 1..21 |->
            IF i = 1 THEN <<p0, p0 + Len(T0)>>
            ELSE IF i = 2 THEN <<p0 + Len(T0), p1>>
            ELSE IF i = 3 THEN <<p1, p1 + Len(T1)>>
            ELSE IF i = 4 THEN <<p1 + Len(T1), pm>>
            ELSE IF i = 20 THEN <<endOf(n - 1), pos[n]>>
            ELSE IF i = 21 THEN <<pos[n], endOf(n)>>
            ELSE IF i >= g /\ i <= g + 2 * (n - 2)
                 THEN IF (i - g) % 2 = 0
                      THEN <<pos[(i - g) \div 2 + 1], endOf((i - g) \div 2 + 1)>>
                      ELSE <<endOf((i - g + 1) \div 2), pos[(i - g + 1) \div 2 + 1]>>
                 ELSE None]

\* _PATTERN.search: NoMatch stands for the None it returns when nothing matches
_PATTERN_search(s) ==
    LET branches == Branches(s)
        afterT1 == AfterT1(branches)
        fromT1 == FromT1(s, afterT1)
        starts == FromT0(s, fromT1)
    IN  IF starts = {}
        THEN NoMatch
        ELSE LET p0 == Min(starts)
                 p1 == Min({q \in fromT1 : q >= p0 + Len(T0)})
                 pm == Min({q \in afterT1 : q >= p1 + Len(T1)})
                 k == FirstBranchAt(branches, pm)
                 pos == LazyPositions(BranchChain(k), branches[k], 1, pm)
             IN  [string |-> s,
                  start |-> p0,
                  end |-> pos[Len(pos)] + Len(T11),
                  groups |-> _PATTERN_MatchGroups(p0, p1, pm, k, pos)]

\* the branch _apply_once reads off the match: group 9 is (T4), 12 is (T6),
\* 19 is (T10)
branch(m) ==
    IF m.groups[9] # None THEN 1
    ELSE IF m.groups[12] # None THEN 2
    ELSE IF m.groups[19] # None THEN 3
    ELSE 0

\* the tail gap, group 20, left out of what is kept
kept_without_tail(s, m) ==
    GroupText(s, m, 2) \o GroupText(s, m, 4) \o GroupText(s, m, 6)
    \o GroupText(s, m, 8) \o GroupText(s, m, 11) \o GroupText(s, m, 14)
    \o GroupText(s, m, 16) \o GroupText(s, m, 18)

\* the gaps _apply_once keeps: groups 2, 4, 6, 8, 11, 14, 16, 18, 20
kept(s, m) ==
    GroupText(s, m, 2) \o GroupText(s, m, 4) \o GroupText(s, m, 6)
    \o GroupText(s, m, 8) \o GroupText(s, m, 11) \o GroupText(s, m, 14)
    \o GroupText(s, m, 16) \o GroupText(s, m, 18) \o GroupText(s, m, 20)

\* _apply_once after its search: <<new_s, branch, did_replace>>
apply_match(s, m) ==
    IF m = NoMatch
    THEN <<s, 0, 0>>
    ELSE <<SubSeq(s, 1, m.start - 1) \o kept(s, m) \o SubSeq(s, m.end, Len(s)),
           branch(m),
           1>>

_apply_once(s) == apply_match(s, _PATTERN_search(s))

\* the loop of verify_invariants_text and its return value
\* <<ok, leftover, (count1, count2, count3)>>
RECURSIVE verify_loop(_, _)
verify_loop(flattened, counts) ==
    LET r == _apply_once(flattened)
    IN  IF r[3] = 0
        THEN <<strip(r[1]) = <<>>, strip(r[1]), counts>>
        ELSE verify_loop(r[1], [k \in 1..3 |-> IF k = r[2] THEN counts[k] + 1 ELSE counts[k]])

verify_invariants_text(text) == verify_loop(flat(text), <<0, 0, 0>>)

----------------------------------------------------------------------------
(* The inputs the calls are run on.  A stream is given by strands of       *)
(* tokens: it is the concatenation of the tokens of an interleaving of     *)
(* its strands.                                                            *)

\* most tokens of a stream woven from two strands
MaxTokens == 12
\* most pieces of the filler segment inserted into a strand
MaxFiller == 1

\* tokens that are no anchor but begin with the text of one
T00 == <<"T", "0", "0">>
T12 == <<"T", "1", "2">>
T110 == <<"T", "1", "1", "0">>

\* what a filler segment is made of: free text, whitespace, stray anchors and
\* longer tokens
FillPieces == {<<"x">>, <<" ">>, T0, T1, T5, T10, T11, T00, T12, T110}

\* the filler characters of the documented example "T0xT1yT2zT3wT4vT11"
FillerRun == << <<"x">>, <<"y">>, <<"z">>, <<"w">>, <<"v">> >>

\* seq without its d-th element
Drop(seq, d) == [i \in 1..(Len(seq) - 1) |-> IF i < d THEN seq[i] ELSE seq[i + 1]]

\* seq with seg inserted after its i-th element
Insert(seq, i, seg) == SubSeq(seq, 1, i) \o seg \o SubSeq(seq, i + 1, Len(seq))

\* the interleaving of a and b that puts the elements of a at the positions S
Weave(a, b, S) ==
    [i \in 1..(Len(a) + Len(b)) |->
        LET n == Cardinality(S \cap (1..i))
        IN  IF i \in S THEN a[n] ELSE b[i - n]]

RECURSIVE SeqsUpTo(_, _)
SeqsUpTo(S, n) ==
    IF n = 0
    THEN {<<>>}
    ELSE LET shorter == SeqsUpTo(S, n - 1)
         IN  shorter \cup {Append(x, e) : x \in shorter, e \in S}

\* nothing, a template instance, or a template instance that lacks one anchor
PartialStrands ==
    {<<>>}
    \cup {INVARIANT_DEFINITIONS[k] : k \in 1..3}
    \cup UNION {{Drop(INVARIANT_DEFINITIONS[k], d) : d \in 1..Len(INVARIANT_DEFINITIONS[k])}
                    : k \in 1..3}

\* a (partial) instance with one filler segment inserted somewhere
NoisyInputs ==
    UNION {{[strands |-> <<st, f>>, log |-> Flatten(Insert(st, i, f))]
                : i \in 0..Len(st), f \in SeqsUpTo(FillPieces, MaxFiller)}
           : st \in PartialStrands}

WeaveStrands == INVARIANT_DEFINITIONS \o <<FillerRun>>

\* two strands (complete instances, or the filler run) interleaved
WovenInputs ==
    UNION {{[strands |-> <<WeaveStrands[ab[1]], WeaveStrands[ab[2]]>>,
             log |-> Flatten(Weave(WeaveStrands[ab[1]], WeaveStrands[ab[2]], S))]
                : S \in {S \in SUBSET (1..(Len(WeaveStrands[ab[1]]) + Len(WeaveStrands[ab[2]])))
                            : Cardinality(S) = Len(WeaveStrands[ab[1]])}}
           : ab \in {ab \in (1..4) \X (1..4) :
                        /\ ab[1] <= ab[2]
                        /\ Len(WeaveStrands[ab[1]]) + Len(WeaveStrands[ab[2]]) <= MaxTokens}}

Inputs == NoisyInputs \cup WovenInputs

\* most pieces of the left operand of a concatenation
MaxConcatTokens == 13

\* seq with its i-th token, of three characters, written as two pieces: its
\* first two characters and its last one
Cut(seq, i) ==
    SubSeq(seq, 1, i - 1)
    \o <<SubSeq(seq[i], 1, 2), SubSeq(seq[i], 3, 3)>>
    \o SubSeq(seq, i + 1, Len(seq))

\* the instances, whole and with a T10 or T11 cut so that a token of another
\* strand can stand between its two pieces (T1, T11, 0 reads T1 T110)
CutStrands ==
    UNION {{INVARIANT_DEFINITIONS[k]}
           \cup {Cut(INVARIANT_DEFINITIONS[k], i) :
                    i \in {i \in 1..Len(INVARIANT_DEFINITIONS[k]) :
                              Len(INVARIANT_DEFINITIONS[k][i]) = 3}}
           : k \in 1..3}

\* left operands: a Template-2 instance interleaved with a whole or cut instance
ConcatLeft ==
    UNION {{Weave(INVARIANT_DEFINITIONS[2], b, S) :
                S \in {S \in SUBSET (1..(Len(INVARIANT_DEFINITIONS[2]) + Len(b))) :
                          Cardinality(S) = Len(INVARIANT_DEFINITIONS[2])}}
           : b \in {b \in CutStrands :
                       Len(INVARIANT_DEFINITIONS[2]) + Len(b) <= MaxConcatTokens}}

\* right operands: one instance
ConcatRight == Range(INVARIANT_DEFINITIONS)

\* the concatenations A ++ B, with the operands A and B as the two strands
ConcatInputs ==
    {[strands |-> <<a, b>>, log |-> Flatten(a) \o Flatten(b)] :
        a \in ConcatLeft, b \in ConcatRight}

\* most line breaks written into a stream
MaxBreaks == 2

\* what ends a line: a line break, alone or with blanks around it
LineEnds == {<<"\n">>, <<" ", "\n", " ">>}

\* a strand with one filler character after its second token
Annotated(st) == IF Len(st) >= 2 THEN Insert(st, 2, <<<<"x">>>>) ELSE st

LineStrands == PartialStrands \cup {Annotated(st) : st \in PartialStrands}

\* the ways to write the tokens of st on lines, with at most n line ends
RECURSIVE Broken(_, _, _)
Broken(st, n, from) ==
    IF n = 0 THEN {st}
    ELSE {st} \cup
         UNION {{Insert(rest, i, <<e>>) : e \in LineEnds, rest \in Broken(st, n - 1, i + 1)}
                    : i \in from..Len(st)}

\* the same text written on one line and on several
LineInputs ==
    UNION {{[strands |-> <<st, <<>>>>, log |-> Flatten(b)] : b \in Broken(st, MaxBreaks, 0)}
           : st \in LineStrands}

\* streams of tokens only, some of them longer tokens that begin with an
\* anchor: the left operands above, each as a call's whole input
CutInputs == {[strands |-> <<a, <<>>>>, log |-> Flatten(a)] : a \in ConcatLeft}

\* the texts given to verify_invariants_text: written on several lines, or on
\* one line with filler and longer tokens
ScriptInputs == LineInputs \cup NoisyInputs

\* number of check_invariants calls running at the same time
MaxCalls == 2

\* the streams given to concurrent calls: an instance or the filler run,
\* alone or followed by a Template-2 instance
ConcurrentInputs ==
    {[strands |-> <<a, b>>, log |-> Flatten(a \o b)] :
        a \in Range(WeaveStrands), b \in {<<>>, INVARIANT_DEFINITIONS[2]}}

----------------------------------------------------------------------------
(* check_invariants as a state machine: one step per iteration of its loop. *)

\* the UI of a call that was not made by main(): nothing is written
NoUI == [quiet |-> TRUE, verbose |-> FALSE, decorations_enabled |-> FALSE]

\* the exit status of a process that is still running
NotExited == -1

NoResult == InvariantCheckResult(<<>>, <<>>, <<0, 0, 0>>)

\* the calls in progress or finished
Calls == DOMAIN pc

\* the state of the calls right after lines 90-96, for the given inputs
Start(ins) ==
    /\ strands = [c \in DOMAIN ins |-> ins[c].strands]
    /\ transition_log = [c \in DOMAIN ins |-> ins[c].log]
    /\ remaining_log = [c \in DOMAIN ins |-> ins[c].log]
    /\ invariant_counts = [c \in DOMAIN ins |-> <<0, 0, 0>>]
    /\ iterations = [c \in DOMAIN ins |-> 0]
    /\ match = [c \in DOMAIN ins |-> NoMatch]
    /\ pc = [c \in DOMAIN ins |-> "loop"]
    /\ result = [c \in DOMAIN ins |-> NoResult]
    /\ ui = [c \in DOMAIN ins |-> NoUI]
    /\ written = [c \in DOMAIN ins |-> <<>>]
    /\ exit_status = [c \in DOMAIN ins |-> NotExited]

Init == \E in \in Inputs : Start(<<in>>)

\* the count of the matched template decremented instead of incremented
Consume_counting_down(c) ==
    /\ pc[c] = "loop"
    /\ LET m == search(remaining_log[c])
           r == consume_match(remaining_log[c], m)
       IN  /\ r[3]
           /\ match' = [match EXCEPT ![c] = m]
           /\ remaining_log' = [remaining_log EXCEPT ![c] = r[1]]
           /\ invariant_counts' =
                [invariant_counts EXCEPT
                    ![c] = [k \in 1..3 |-> IF k = r[2] THEN @[k] - 1 ELSE @[k]]]
    /\ iterations' = [iterations EXCEPT ![c] = @ + 1]
    /\ UNCHANGED <<strands, transition_log, pc, result, ui, written, exit_status>>

\* one iteration of the loop that finds and consumes a match (lines 99-109)
Consume(c) ==
    /\ pc[c] = "loop"
    /\ LET m == search(remaining_log[c])
           r == consume_match(remaining_log[c], m)
       IN  /\ r[3]
           /\ match' = [match EXCEPT ![c] = m]
           /\ remaining_log' = [remaining_log EXCEPT ![c] = r[1]]
           /\ invariant_counts' =
                [invariant_counts EXCEPT
                    ![c] = [k \in 1..3 |-> IF k = r[2] THEN @[k] + 1 ELSE @[k]]]
    /\ iterations' = [iterations EXCEPT ![c] = @ + 1]
    /\ UNCHANGED <<strands, transition_log, pc, result, ui, written, exit_status>>

\* the counts kept in one place for all calls: the result is built from the
\* counts of whichever call comes first
Return_counts_of_first_call(c) ==
    /\ pc[c] = "loop"
    /\ LET m == search(remaining_log[c])
           r == consume_match(remaining_log[c], m)
       IN  /\ ~r[3]
           /\ match' = [match EXCEPT ![c] = m]
           /\ remaining_log' = [remaining_log EXCEPT ![c] = r[1]]
           /\ result' = [result EXCEPT
                ![c] = InvariantCheckResult(transition_log[c], r[1], invariant_counts[1])]
    /\ pc' = [pc EXCEPT ![c] = "done"]
    /\ UNCHANGED <<strands, transition_log, invariant_counts, iterations,
                   ui, written, exit_status>>

\* the last iteration, which finds no match, and the return (lines 99-103, 111-121)
Return(c) ==
    /\ pc[c] = "loop"
    /\ LET m == search(remaining_log[c])
           r == consume_match(remaining_log[c], m)
       IN  /\ ~r[3]
           /\ match' = [match EXCEPT ![c] = m]
           /\ remaining_log' = [remaining_log EXCEPT ![c] = r[1]]
           /\ result' = [result EXCEPT
                ![c] = InvariantCheckResult(transition_log[c], r[1], invariant_counts[c])]
    /\ pc' = [pc EXCEPT ![c] = "done"]
    /\ UNCHANGED <<strands, transition_log, invariant_counts, iterations,
                   ui, written, exit_status>>

Next == \E c \in Calls : Consume(c) \/ Return(c)

Spec == Init /\ [][Next]_vars

\* check_invariants called on concatenations A ++ B
InitConcat == \E in \in ConcatInputs : Start(<<in>>)

SpecConcat == InitConcat /\ [][Next]_vars

\* MaxCalls calls in progress at once, each on its own stream; their loop
\* iterations interleave in any order
InitConcurrent == \E ins \in [1..MaxCalls -> ConcurrentInputs] : Start(ins)

SpecConcurrent == InitConcurrent /\ [][Next]_vars

\* check_invariants called on streams of tokens with longer tokens among them
InitCut == \E in \in CutInputs : Start(<<in>>)

SpecCut == InitCut /\ [][Next]_vars

\* main() run on texts written over several lines
InitLines == \E in \in LineInputs : Start(<<in>>)

SpecLines == InitLines /\ [][Next]_vars

----------------------------------------------------------------------------
(* verify_invariants_text of scripts/invariant_checker.py as a state       *)
(* machine over the same variables: transition_log is its argument text,   *)
(* remaining_log its local flat, invariant_counts its count1..count3,      *)
(* match the match of _PATTERN, result the tuple it returns.               *)

NoVerdict == <<FALSE, <<>>, <<0, 0, 0>>>>

\* the state of the calls right after the text was flattened (line 192)
StartScript(ins) ==
    /\ strands = [c \in DOMAIN ins |-> ins[c].strands]
    /\ transition_log = [c \in DOMAIN ins |-> ins[c].log]
    /\ remaining_log = [c \in DOMAIN ins |-> flat(ins[c].log)]
    /\ invariant_counts = [c \in DOMAIN ins |-> <<0, 0, 0>>]
    /\ iterations = [c \in DOMAIN ins |-> 0]
    /\ match = [c \in DOMAIN ins |-> NoMatch]
    /\ pc = [c \in DOMAIN ins |-> "loop"]
    /\ result = [c \in DOMAIN ins |-> NoVerdict]
    /\ ui = [c \in DOMAIN ins |-> NoUI]
    /\ written = [c \in DOMAIN ins |-> <<>>]
    /\ exit_status = [c \in DOMAIN ins |-> NotExited]

InitScript == \E in \in ScriptInputs : StartScript(<<in>>)

\* one iteration of the loop in which _apply_once replaced a match
ApplyOnce(c) ==
    /\ pc[c] = "loop"
    /\ LET m == _PATTERN_search(remaining_log[c])
           r == apply_match(remaining_log[c], m)
       IN  /\ r[3] = 1
           /\ match' = [match EXCEPT ![c] = m]
           /\ remaining_log' = [remaining_log EXCEPT ![c] = r[1]]
           /\ invariant_counts' =
                [invariant_counts EXCEPT
                    ![c] = [k \in 1..3 |-> IF k = r[2] THEN @[k] + 1 ELSE @[k]]]
    /\ iterations' = [iterations EXCEPT ![c] = @ + 1]
    /\ UNCHANGED <<strands, transition_log, pc, result, ui, written, exit_status>>

\* the last iteration, in which nothing changed, and the return
ReturnVerdict(c) ==
    /\ pc[c] = "loop"
    /\ LET m == _PATTERN_search(remaining_log[c])
           r == apply_match(remaining_log[c], m)
       IN  /\ r[3] = 0
           /\ match' = [match EXCEPT ![c] = m]
           /\ remaining_log' = [remaining_log EXCEPT ![c] = r[1]]
           /\ result' = [result EXCEPT
                ![c] = <<strip(r[1]) = <<>>, strip(r[1]), invariant_counts[c]>>]
    /\ pc' = [pc EXCEPT ![c] = "done"]
    /\ UNCHANGED <<strands, transition_log, invariant_counts, iterations,
                   ui, written, exit_status>>

NextScript == \E c \in Calls : ApplyOnce(c) \/ ReturnVerdict(c)

SpecScript == InitScript /\ [][NextScript]_vars

----------------------------------------------------------------------------
(* The package's command line: main() reads the content, calls             *)
(* check_invariants on it, hands the result to print_report and exits.     *)
(* A part of the report is modelled by its name; an exception that nothing *)
(* catches ends the process with status 1.                                 *)

\* the UI objects main() can build from --no-fun, -q and -v
UIs == [quiet : BOOLEAN, verbose : BOOLEAN, decorations_enabled : BOOLEAN]

\* the contents main() reads
CliInputs == ConcurrentInputs

\* what a render function yields when it raises instead
Raised == <<"AttributeError">>

render_banner(u) ==
    IF u.quiet \/ ~u.decorations_enabled THEN <<>> ELSE <<"banner">>

render_counts(u, counts) == <<"counts">>

render_diagnostics(u, res) ==
    IF ~u.verbose \/ u.quiet THEN <<>> ELSE <<"diagnostics">>

render_leftover_preview(u, leftover) == <<"leftover preview">>

\* render_status reads the attribute fully_consumed of the result
render_status(u, res) ==
    IF "fully_consumed" \notin DOMAIN res
    THEN Raised
    ELSE IF res.fully_consumed
         THEN <<"success line">>
         ELSE render_leftover_preview(u, res.leftover_transitions)

\* UI.info writes the line unless the UI is quiet
info(u, lines) == IF u.quiet THEN <<>> ELSE lines

\* main() after the content was read: the locals of check_invariants as in
\* Start, and the UI built from the arguments
StartMain(ins, uis) ==
    /\ strands = [c \in DOMAIN ins |-> ins[c].strands]
    /\ transition_log = [c \in DOMAIN ins |-> ins[c].log]
    /\ remaining_log = [c \in DOMAIN ins |-> ins[c].log]
    /\ invariant_counts = [c \in DOMAIN ins |-> <<0, 0, 0>>]
    /\ iterations = [c \in DOMAIN ins |-> 0]
    /\ match = [c \in DOMAIN ins |-> NoMatch]
    /\ pc = [c \in DOMAIN ins |-> "loop"]
    /\ result = [c \in DOMAIN ins |-> NoResult]
    /\ ui = uis
    /\ written = [c \in DOMAIN ins |-> <<>>]
    /\ exit_status = [c \in DOMAIN ins |-> NotExited]

InitCli == \E in \in CliInputs, u \in UIs : StartMain(<<in>>, <<u>>)

\* print_report(ui, original_text=content, result=result, bar_width=width)
\* followed by sys.exit(0): the parts are rendered and written one after the
\* other, and a render function that raises ends the process
print_report(c) ==
    /\ pc[c] = "done"
    /\ exit_status[c] = NotExited
    /\ LET status == render_status(ui[c], result[c])
           upToStatus ==
               render_banner(ui[c])
               \o render_counts(ui[c], result[c].invariant_counts)
               \o render_diagnostics(ui[c], result[c])
       IN  IF status = Raised
           THEN /\ written' = [written EXCEPT ![c] = info(ui[c], upToStatus)]
                /\ exit_status' = [exit_status EXCEPT ![c] = 1]
           ELSE /\ written' = [written EXCEPT ![c] = info(ui[c], upToStatus \o status)]
                /\ exit_status' = [exit_status EXCEPT ![c] = 0]
    /\ UNCHANGED <<strands, transition_log, remaining_log, invariant_counts, iterations,
                   match, pc, result, ui>>

NextCli == \E c \in Calls : Consume(c) \/ Return(c) \/ print_report(c)

SpecCli == InitCli /\ [][NextCli]_vars

----------------------------------------------------------------------------
(* Vocabulary of the properties.                                           *)

Done(c) == pc[c] = "done"

\* the latest iteration of call c consumed a match: match[c] is that match,
\* match[c].string the stream it was found in, remaining_log[c] the outcome
Consumed(c) == match[c] # NoMatch

\* the groups of the pattern that are anchors: (T0) (T1) (T2) (T3) (T4) (T5)
\* (T6) (T7) (T8) (T9) (T10) (T11)
AnchorGroups == <<1, 3, 6, 8, 10, 11, 13, 14, 16, 18, 20, 22>>

\* the stream positions covered by the anchors of match m
AnchorPositions(m) ==
    UNION {m.groups[g][1]..(m.groups[g][2] - 1) : g \in Range(AnchorGroups)}

\* s without the characters at the positions in R
RECURSIVE Without(_, _, _)
Without(s, R, i) ==
    IF i > Len(s) THEN <<>>
    ELSE (IF i \in R THEN <<>> ELSE <<s[i]>>) \o Without(s, R, i + 1)

\* the text of the anchors of m, in stream order
AnchorText(m) ==
    Flatten([i \in 1..Len(AnchorGroups) |-> GroupText(m.string, m, AnchorGroups[i])])

\* every strand of the input of call c is a complete template instance
OnlyInstances(c) ==
    \A i \in DOMAIN strands[c] :
        strands[c][i] = <<>> \/ strands[c][i] \in Range(INVARIANT_DEFINITIONS)

InstancesOf(c, k) ==
    Cardinality({i \in DOMAIN strands[c] : strands[c][i] = INVARIANT_DEFINITIONS[k]})

----------------------------------------------------------------------------
\* C1: a stream that is an interleaving of complete template instances is
\* fully consumed, with nothing left over, and the counts are the numbers of
\* instances of each template it was woven from.
C1_InterleavingFullyConsumed ==
    \A c \in Calls :
        (Done(c) /\ OnlyInstances(c)) =>
            /\ result[c].was_fully_consumed
            /\ result[c].leftover_transitions = <<>>
            /\ result[c].invariant_counts = <<InstancesOf(c, 1), InstancesOf(c, 2), InstancesOf(c, 3)>>

\* two instances of different templates, properly interleaved, were consumed
C1_Witness ==
    \E c \in Calls :
        /\ Done(c)
        /\ strands[c] = <<INVARIANT_DEFINITIONS[1], INVARIANT_DEFINITIONS[2]>>
        /\ transition_log[c] # Flatten(strands[c][1] \o strands[c][2])
        /\ transition_log[c] # Flatten(strands[c][2] \o strands[c][1])
        /\ result[c].invariant_counts = <<1, 1, 0>>

\* C2: on a match, the new stream is stream[0:start] + the gaps + stream[end:]:
\* the anchors of the matched template, which lie inside the match, are the
\* only characters removed, and every other character is kept once, in order.
C2_OnlyAnchorsRemoved ==
    \A c \in Calls :
        Consumed(c) =>
            LET m == match[c]
            IN  /\ remaining_log[c] = Without(m.string, AnchorPositions(m), 1)
                /\ AnchorPositions(m) \subseteq m.start..(m.end - 1)
                /\ m.start \in AnchorPositions(m)
                /\ (m.end - 1) \in AnchorPositions(m)
                /\ \E k \in 1..3 : AnchorText(m) = Flatten(INVARIANT_DEFINITIONS[k])

\* a match with a filler before it, inside it and after it was consumed
C2_Witness ==
    \E c \in Calls :
        /\ Consumed(c)
        /\ match[c].start > 1
        /\ match[c].end <= Len(match[c].string)
        /\ Len(remaining_log[c]) > (match[c].start - 1) + (Len(match[c].string) - match[c].end + 1)

----------------------------------------------------------------------------
\* the templates whose continuation (middle anchors, then T11) occurs in order
\* after the T1 of match m
Completable(m) ==
    {k \in 1..3 : \E p \in Branches(m.string)[k][1] : p >= m.groups[3][2]}

\* where the continuation of template k can first start after the T1 of m
FirstStart(m, k) ==
    Min({p \in Branches(m.string)[k][1] : p >= m.groups[3][2]})

Unit(k) == [j \in 1..3 |-> IF j = k THEN 1 ELSE 0]

\* C3 (as stated): when the continuations of several templates could each
\* complete a match from the same T0...T1 prefix, the lowest-numbered of these
\* templates is the one located, consumed and counted.
C3_LowestTemplateWins ==
    \A c \in Calls :
        Consumed(c) => _detect_invariant(match[c]) = Min(Completable(match[c]))

\* C3 (amended): of the continuations that could complete a match from the
\* same T0...T1 prefix, the one that starts earliest after the T1 is located,
\* consumed and counted; no two of them start at the same position.
C3_EarliestContinuationWins ==
    \A c \in Calls :
        Consumed(c) =>
            LET m == match[c]
                k == _detect_invariant(m)
            IN  /\ k \in Completable(m)
                /\ \A j \in Completable(m) \ {k} : FirstStart(m, k) < FirstStart(m, j)
                /\ m.groups[BranchFirstGroup[k]][1] = FirstStart(m, k)
                /\ AnchorText(m) = Flatten(INVARIANT_DEFINITIONS[k])
                /\ iterations[c] = 1 => invariant_counts[c] = Unit(k)

\* template 2 was consumed and counted although template 1 could have been
\* completed from the same prefix
C3_Witness ==
    \E c \in Calls :
        /\ Consumed(c)
        /\ iterations[c] = 1
        /\ Completable(match[c]) = {1, 2}
        /\ invariant_counts[c] = <<0, 1, 0>>

\* C4: every anchor of a match is a whole token: the character after it is
\* no digit, so no longer token (T10, T12, T110, T00, ...) is matched as an
\* anchor or cut in two.
C4_AnchorsAreWholeTokens ==
    \A c \in Calls :
        Consumed(c) =>
            \A g \in Range(AnchorGroups) :
                LET e == match[c].groups[g][2]
                IN  (match[c].groups[g] # None /\ e <= Len(match[c].string))
                        => match[c].string[e] \notin Digits

\* the anchors occur in s from position `from` on, in order and without overlap
RECURSIVE Embeds(_, _, _)
Embeds(s, anchors, from) ==
    \/ anchors = <<>>
    \/ \E p \in from..Len(s) :
          /\ At(s, p, Head(anchors))
          /\ Embeds(s, Tail(anchors), p + Len(Head(anchors)))

Satisfiable(s) == \E k \in 1..3 : Embeds(s, INVARIANT_DEFINITIONS[k], 1)

\* C5: a match is reported exactly when the stream holds, for some template,
\* all its anchors as non-overlapping occurrences in the template's order.
C5_MatchIffAnchorsInOrder ==
    \A c \in Calls :
        /\ Consumed(c) => Satisfiable(match[c].string)
        /\ Done(c) => ~Satisfiable(remaining_log[c])

\* no match was reported for a stream that holds every anchor of template 2,
\* but not in order
C5_Witness ==
    \E c \in Calls :
        /\ Done(c)
        /\ iterations[c] = 0
        /\ \A i \in 1..Len(INVARIANT_DEFINITIONS[2]) :
              \E p \in Occ(transition_log[c], INVARIANT_DEFINITIONS[2][i]) :
                  LET e == p + Len(INVARIANT_DEFINITIONS[2][i])
                  IN  e > Len(transition_log[c]) \/ transition_log[c][e] \notin Digits

\* C6: every iteration that consumes a match shortens the stream by at least
\* two characters, no step lengthens it, and at most len(transition_log)
\* iterations consume a match: the loop cannot go on for ever.
C6_LoopTerminates ==
    [][\A c \in Calls :
          /\ Len(remaining_log'[c]) <= Len(remaining_log[c])
          /\ iterations'[c] # iterations[c] =>
                Len(remaining_log'[c]) + 2 <= Len(remaining_log[c])
          /\ iterations'[c] <= Len(transition_log[c])]_vars

\* a call returned after consuming two matches
C6_Witness == \E c \in Calls : Done(c) /\ iterations[c] = 2

----------------------------------------------------------------------------
\* b begins with a digit that continues a token at the end of a: a token is
\* formed or extended across the boundary
TokenAcross(a, b) ==
    /\ b # <<>>
    /\ Head(b) \in Digits
    /\ \E i \in 1..Len(a) : a[i] = "T" /\ \A j \in (i + 1)..Len(a) : a[j] \in Digits

\* C7: if check_invariants fully consumes A and fully consumes B, and no token
\* is formed or extended across their boundary, then it fully consumes A ++ B
\* and the counts are the sums of the counts for A and for B.
C7_ConcatenationLaw ==
    \A c \in Calls :
        LET A == Flatten(strands[c][1])
            B == Flatten(strands[c][2])
            ra == check_invariants(A)
            rb == check_invariants(B)
        IN  ( /\ Done(c)
              /\ transition_log[c] = A \o B
              /\ ~TokenAcross(A, B)
              /\ ra.was_fully_consumed
              /\ rb.was_fully_consumed )
            => /\ result[c].was_fully_consumed
               /\ result[c].invariant_counts =
                    [k \in 1..3 |-> ra.invariant_counts[k] + rb.invariant_counts[k]]

\* s without its leading and trailing whitespace, by positions
Trimmed(s) ==
    LET solid == {i \in 1..Len(s) : s[i] \notin Whitespace}
    IN  IF solid = {} THEN <<>>
        ELSE SubSeq(s, Min(solid), CHOOSE i \in solid : \A j \in solid : j <= i)

\* C8: check_invariants applied to the leftover_transitions of a result
\* returns that same leftover and the counts (0,0,0).
C8_IdempotentOnLeftover ==
    \A c \in Calls :
        Done(c) =>
            LET again == check_invariants(result[c].leftover_transitions)
            IN  /\ again.leftover_transitions = result[c].leftover_transitions
                /\ again.invariant_counts = <<0, 0, 0>>

\* a call whose final stream lost whitespace by trimming and left a T0 behind
C8_Witness ==
    \E c \in Calls :
        /\ Done(c)
        /\ result[c].leftover_transitions # remaining_log[c]
        /\ Occ(result[c].leftover_transitions, T0) # {}

FillerExample ==
    T0 \o <<"x">> \o T1 \o <<"y">> \o T2 \o <<"z">> \o T3 \o <<"w">> \o T4 \o <<"v">> \o T11

\* C10 (as stated): on "T0xT1yT2zT3wT4vT11" exactly one Template-1 match is
\* consumed and the residue is empty.
C10_FillerExampleFullyConsumed ==
    \A c \in Calls :
        (Done(c) /\ transition_log[c] = FillerExample) =>
            /\ result[c].invariant_counts = <<1, 0, 0>>
            /\ result[c].was_fully_consumed

\* C10 (amended): on "T0xT1yT2zT3wT4vT11" exactly one Template-1 match is
\* consumed and the residue is the kept filler "xyzwv", so the stream is not
\* fully consumed.
C10_FillerExampleKeepsFiller ==
    \A c \in Calls :
        (Done(c) /\ transition_log[c] = FillerExample) =>
            /\ result[c].invariant_counts = <<1, 0, 0>>
            /\ iterations[c] = 1
            /\ result[c].leftover_transitions = <<"x", "y", "z", "w", "v">>
            /\ result[c].leftover_length = 5
            /\ ~result[c].was_fully_consumed

\* the call on the documented example returned
C10_Witness ==
    \E c \in Calls : Done(c) /\ transition_log[c] = FillerExample /\ iterations[c] = 1

----------------------------------------------------------------------------
\* C11: for each template k, check_invariants on the concatenation of the
\* template's anchors without filler returns was_fully_consumed = true, an
\* empty leftover and the counts with 1 at position k and 0 elsewhere.
C11_CatalogAgreesWithMatcher ==
    \A c \in Calls :
        \A k \in 1..3 :
            (Done(c) /\ transition_log[c] = Flatten(INVARIANT_DEFINITIONS[k])) =>
                /\ result[c].was_fully_consumed
                /\ result[c].leftover_transitions = <<>>
                /\ result[c].invariant_counts = Unit(k)
                /\ iterations[c] = 1

\* the call on the anchors of the longest template returned
C11_Witness ==
    \E c \in Calls :
        /\ Done(c)
        /\ transition_log[c] = Flatten(INVARIANT_DEFINITIONS[3])
        /\ result[c].invariant_counts[3] = 1

----------------------------------------------------------------------------
\* C12: the loop runs on the text with every line stripped and the lines
\* joined, and log_length is the length of that normalized stream: the result
\* for a text has the counts, the leftover and the log_length of the result
\* for its normalized form, from which it differs only in line breaks and
\* the blanks around them.
C12_LineBreaksIgnored ==
    \A c \in Calls :
        Done(c) =>
            LET normal == main(flat(transition_log[c]))
            IN  /\ result[c] = main(transition_log[c])
                /\ result[c].invariant_counts = normal.invariant_counts
                /\ result[c].leftover_transitions = normal.leftover_transitions
                /\ result[c].log_length = Len(flat(transition_log[c]))
                /\ result[c].log_length = normal.log_length

----------------------------------------------------------------------------
\* C13: when no template is satisfiable in the stream (no anchors, anchors
\* that complete no template, or the empty stream), consume_one_invariant
\* returns the stream unchanged with template id 0 and did_consume = false,
\* and check_invariants returns, without having consumed anything, the
\* counts (0,0,0) and the whitespace-trimmed stream as leftover.
C13_UnsatisfiableLeftUntouched ==
    \A c \in Calls :
        (Done(c) /\ ~Satisfiable(transition_log[c])) =>
            /\ consume_one_invariant(transition_log[c]) = <<transition_log[c], 0, FALSE>>
            /\ match[c] = NoMatch
            /\ remaining_log[c] = transition_log[c]
            /\ result[c].invariant_counts = <<0, 0, 0>>
            /\ result[c].leftover_transitions = Trimmed(transition_log[c])

\* a call returned on a stream that has T0, T1 and T11 but completes no template
C13_Witness ==
    \E c \in Calls :
        /\ Done(c)
        /\ ~Satisfiable(transition_log[c])
        /\ Occ(transition_log[c], T0) # {}
        /\ Occ(transition_log[c], T1) # {}
        /\ Occ(transition_log[c], T11) # {}
        /\ result[c].leftover_transitions = transition_log[c]

----------------------------------------------------------------------------
\* C14: in every result, leftover_transitions is the final stream (the one in
\* which no match was found) without its leading and trailing whitespace,
\* was_fully_consumed is true exactly when leftover_transitions is empty,
\* leftover_length is the length of leftover_transitions, and log_length is
\* the length of the stream passed to check_invariants.
C14_ResultRecordConsistent ==
    \A c \in Calls :
        Done(c) =>
            /\ search(remaining_log[c]) = NoMatch
            /\ result[c].leftover_transitions = Trimmed(remaining_log[c])
            /\ result[c].was_fully_consumed = (result[c].leftover_transitions = <<>>)
            /\ result[c].leftover_length = Len(result[c].leftover_transitions)
            /\ result[c].log_length = Len(transition_log[c])

\* a call returned after consuming a match, and the trimming emptied a final
\* stream that was not empty
C14_Witness ==
    \E c \in Calls :
        /\ Done(c)
        /\ iterations[c] > 0
        /\ remaining_log[c] # <<>>
        /\ result[c].was_fully_consumed
        /\ result[c].leftover_length < Len(remaining_log[c])

----------------------------------------------------------------------------
\* C15: monotonic shrink: in every result leftover_length <= log_length, and
\* each of the three counts is a non-negative integer (also while the loop
\* is still running).
C15_MonotonicShrink ==
    \A c \in Calls :
        /\ \A k \in 1..3 : invariant_counts[c][k] \in Nat
        /\ Done(c) =>
            /\ result[c].leftover_length <= result[c].log_length
            /\ \A k \in 1..3 : result[c].invariant_counts[k] \in Nat
            /\ DOMAIN result[c].invariant_counts = 1..3

\* a call returned after consuming a match with a leftover that is shorter
\* than the input and not empty
C15_Witness ==
    \E c \in Calls :
        /\ Done(c)
        /\ result[c].invariant_counts # <<0, 0, 0>>
        /\ result[c].leftover_length > 0
        /\ result[c].leftover_length < result[c].log_length

----------------------------------------------------------------------------
\* the stream and the counts of a call run alone on log, after n iterations
RECURSIVE Alone(_, _)
Alone(log, n) ==
    IF n = 0 THEN <<log, <<0, 0, 0>>>>
    ELSE LET before == Alone(log, n - 1)
             r == consume_one_invariant(before[1])
         IN  <<r[1], [k \in 1..3 |-> IF k = r[2] THEN before[2][k] + 1 ELSE before[2][k]]>>

\* C16: check_invariants calls running concurrently on independent streams,
\* under every interleaving of their iterations, each go through the states
\* of the same call run alone and return its result: no call's stream, counts
\* or match is touched by another call.
C16_ConcurrentCallsIndependent ==
    \A c \in Calls :
        /\ <<remaining_log[c], invariant_counts[c]>> = Alone(transition_log[c], iterations[c])
        /\ match[c] \in {NoMatch, search(match[c].string)}
        /\ Done(c) => result[c] = check_invariants(transition_log[c])

\* two calls on different streams are both in the middle of their loops, each
\* having consumed a match
C16_Witness ==
    \E c \in Calls, d \in Calls :
        /\ c # d
        /\ transition_log[c] # transition_log[d]
        /\ pc[c] = "loop" /\ iterations[c] > 0
        /\ pc[d] = "loop" /\ iterations[d] > 0
        /\ invariant_counts[c] # invariant_counts[d]

----------------------------------------------------------------------------
\* a T0 stands at p in s and the remaining anchors of some template follow
\* it in order
CompletableFrom(s, p) ==
    /\ At(s, p, T0)
    /\ \E k \in 1..3 : Embeds(s, Tail(INVARIANT_DEFINITIONS[k]), p + Len(T0))

\* C17: the located match starts at the smallest index that holds a T0 from
\* which some template can be completed: no such T0 further left is skipped,
\* and a T0 from which no template can be completed is not where a match
\* starts and stays in the stream.
C17_LeftmostCompletableStart ==
    \A c \in Calls :
        Consumed(c) =>
            LET s == match[c].string
                p0 == match[c].start
            IN  /\ CompletableFrom(s, p0)
                /\ \A p \in 1..(p0 - 1) : ~CompletableFrom(s, p)
                /\ SubSeq(remaining_log[c], 1, p0 - 1) = SubSeq(s, 1, p0 - 1)
                /\ \A p \in Occ(s, T0) :
                      ~CompletableFrom(s, p) =>
                          /\ p # p0
                          /\ p \notin AnchorPositions(match[c])
                          /\ Cardinality(Occ(remaining_log[c], T0)) >= 1

\* a match was consumed in a stream that holds a further T0 from which no
\* template can be completed, and that T0 is still in the stream
C17_Witness ==
    \E c \in Calls :
        /\ Consumed(c)
        /\ \E p \in Occ(match[c].string, T0) :
              p > match[c].start /\ ~CompletableFrom(match[c].string, p)
        /\ Occ(remaining_log[c], T0) # {}

----------------------------------------------------------------------------
\* the spans of the anchors of match m, in stream order
MatchedAnchors(m) ==
    SelectSeq([i \in 1..Len(AnchorGroups) |-> m.groups[AnchorGroups[i]]],
              LAMBDA span : span # None)

\* C18: in every located match each anchor after T0 is the first occurrence
\* of that anchor after the anchor matched before it, so every gap is the
\* shortest text after which the next anchor is found.
C18_GapsAreShortest ==
    \A c \in Calls :
        Consumed(c) =>
            LET s == match[c].string
                spans == MatchedAnchors(match[c])
            IN  \A j \in 2..Len(spans) :
                    LET anchor == SubSeq(s, spans[j][1], spans[j][2] - 1)
                    IN  /\ spans[j][1] >= spans[j - 1][2]
                        /\ \A p \in spans[j - 1][2]..(spans[j][1] - 1) : ~At(s, p, anchor)

\* a match was consumed that has a gap with text in it and whose T11 is
\* followed by another T11
C18_Witness ==
    \E c \in Calls :
        /\ Consumed(c)
        /\ _collect_unmatched_groups(match[c].string, match[c]) # <<>>
        /\ \E p \in Occ(match[c].string, T11) : p >= match[c].end

----------------------------------------------------------------------------
\* s is made only of T<digits> tokens and whitespace
OnlyTokens(s) ==
    \A i \in 1..Len(s) :
        \/ s[i] \in Whitespace
        \/ s[i] = "T" /\ i < Len(s) /\ s[i + 1] \in Digits
        \/ s[i] \in Digits /\ i > 1 /\ (s[i - 1] = "T" \/ s[i - 1] \in Digits)

\* the end of the run of digits that starts at i
RECURSIVE DigitsEnd(_, _)
DigitsEnd(s, i) == IF i <= Len(s) /\ s[i] \in Digits THEN DigitsEnd(s, i + 1) ELSE i

\* the T<digits> tokens of s from position i on, each a maximal run
RECURSIVE TokensFrom(_, _)
TokensFrom(s, i) ==
    IF i > Len(s) THEN <<>>
    ELSE IF s[i] = "T"
         THEN <<SubSeq(s, i, DigitsEnd(s, i + 1) - 1)>> \o TokensFrom(s, DigitsEnd(s, i + 1))
         ELSE TokensFrom(s, i + 1)

Tokens(s) == TokensFrom(s, 1)

\* how far the instances of a partition have come: progress[k][j] is the
\* number of instances of template k that have taken their first j anchors
NoProgress == [k \in 1..3 |-> [j \in 1..Len(INVARIANT_DEFINITIONS[k]) |-> 0]]

\* the token t starts a new instance or continues one that waits for it
Progress(progress, t) ==
    {[progress EXCEPT ![k][1] = @ + 1] : k \in {k \in 1..3 : INVARIANT_DEFINITIONS[k][1] = t}}
    \cup UNION {{[progress EXCEPT ![k][j - 1] = @ - 1, ![k][j] = @ + 1] :
                    j \in {j \in 2..Len(INVARIANT_DEFINITIONS[k]) :
                              INVARIANT_DEFINITIONS[k][j] = t /\ progress[k][j - 1] > 0}}
                : k \in 1..3}

\* every way to deal the first n tokens out to instances, in order
RECURSIVE Dealt(_, _)
Dealt(toks, n) ==
    IF n = 0 THEN {NoProgress}
    ELSE UNION {Progress(progress, toks[n]) : progress \in Dealt(toks, n - 1)}

\* toks can be partitioned into ordered subsequences, each the anchor list of
\* a template, counts[k] of them for template k
Partitioned(toks, counts) ==
    \E progress \in Dealt(toks, Len(toks)) :
        \A k \in 1..3 :
            \A j \in 1..Len(INVARIANT_DEFINITIONS[k]) :
                progress[k][j] = IF j = Len(INVARIANT_DEFINITIONS[k]) THEN counts[k] ELSE 0

\* C19: if the result for a stream made only of T<digits> tokens and
\* whitespace has was_fully_consumed = true, the tokens of the stream can be
\* partitioned into ordered subsequences that are each the anchor list of a
\* template, invariant_counts[k] of them for template k.
C19_PositiveVerdictSound ==
    \A c \in Calls :
        (Done(c) /\ result[c].was_fully_consumed /\ OnlyTokens(transition_log[c])) =>
            Partitioned(Tokens(transition_log[c]), result[c].invariant_counts)

----------------------------------------------------------------------------
\* the anchor ids, by their tokens
Anchors == {T0, T1, T2, T3, T4, T5, T6, T7, T8, T9, T10, T11}

\* how many of the tokens toks are the token t
CountOf(toks, t) == Cardinality({i \in DOMAIN toks : toks[i] = t})

\* how many matches counted so far by call c are of a template that has anchor t
MatchesWith(c, t) ==
    LET has(k) == \E j \in DOMAIN INVARIANT_DEFINITIONS[k] : INVARIANT_DEFINITIONS[k][j] = t
        count(k) == IF has(k) THEN invariant_counts[c][k] ELSE 0
    IN  count(1) + count(2) + count(3)

\* C20: a consumption step creates and alters no token: every T<digits>
\* token of the new stream is a token of the old one, and after any number of
\* steps, for each anchor id, the tokens of that id in the initial stream are
\* as many as those in the current stream plus the counted matches of the
\* templates that have that anchor.
C20_TokensNeitherMadeNorAltered ==
    \A c \in Calls :
        /\ Consumed(c) =>
              Range(Tokens(remaining_log[c])) \subseteq Range(Tokens(match[c].string))
        /\ \A t \in Anchors :
              CountOf(Tokens(transition_log[c]), t)
                = CountOf(Tokens(remaining_log[c]), t) + MatchesWith(c, t)

----------------------------------------------------------------------------
\* the summed lengths of the anchors of template k
AnchorLength(k) == Len(Flatten(INVARIANT_DEFINITIONS[k]))

\* the characters deleted by the matches counted in counts
Deleted(counts) ==
    counts[1] * AnchorLength(1) + counts[2] * AnchorLength(2) + counts[3] * AnchorLength(3)

\* C21: length accounting: after any number of consumption steps with counts
\* (c1, c2, c3), the initial stream is longer than the current one by
\* 13*c1 + 11*c2 + 16*c3, the summed anchor lengths of the templates, and in
\* the result leftover_length <= log_length - (13*c1 + 11*c2 + 16*c3).
C21_LengthAccounting ==
    /\ <<AnchorLength(1), AnchorLength(2), AnchorLength(3)>> = <<13, 11, 16>>
    /\ \A c \in Calls :
        /\ Len(transition_log[c]) - Len(remaining_log[c])
             = 13 * invariant_counts[c][1] + 11 * invariant_counts[c][2]
               + 16 * invariant_counts[c][3]
        /\ Len(transition_log[c]) - Len(remaining_log[c]) = Deleted(invariant_counts[c])
        /\ Done(c) =>
             result[c].leftover_length
                <= result[c].log_length - Deleted(result[c].invariant_counts)

\* a call returned after two matches of different templates
C21_Witness ==
    \E c \in Calls :
        /\ Done(c)
        /\ iterations[c] = 2
        /\ \E k \in 1..3 : result[c].invariant_counts[k] = 1

----------------------------------------------------------------------------
\* C22: every successful consumption step reports exactly one template id,
\* in {1, 2, 3} and never 0, and the loop adds one to that template's count
\* and leaves the other two alone; so the three counts always sum to the
\* number of consumption steps made.
C22_OneTemplateCountedPerStep ==
    [][\A c \in Calls :
          /\ iterations'[c] # iterations[c] =>
                LET id == _detect_invariant(match'[c])
                IN  /\ iterations'[c] = iterations[c] + 1
                    /\ id \in 1..3
                    /\ consume_one_invariant(remaining_log[c])
                         = <<remaining_log'[c], id, TRUE>>
                    /\ Cardinality({g \in {_T4_GROUP_INDEX, _T6_GROUP_INDEX, _T10_GROUP_INDEX} :
                                       match'[c].groups[g] # None}) = 1
                    /\ invariant_counts'[c] =
                         [k \in 1..3 |-> invariant_counts[c][k] + (IF k = id THEN 1 ELSE 0)]
          /\ iterations'[c] = iterations[c] => invariant_counts'[c] = invariant_counts[c]
          /\ invariant_counts'[c][1] + invariant_counts'[c][2] + invariant_counts'[c][3]
               = iterations'[c]
      ]_vars

\* a call has made two consumption steps, of two different templates, and is
\* still in its loop
C22_Witness ==
    \E c \in Calls :
        /\ pc[c] = "loop"
        /\ iterations[c] = 2
        /\ \E j \in 1..3, k \in 1..3 :
              j # k /\ invariant_counts[c][j] = 1 /\ invariant_counts[c][k] = 1

----------------------------------------------------------------------------
\* C23: the two engines agree: for every text, verify_invariants_text(text)
\* returns the fully-consumed flag, the leftover and the counts of
\* check_invariants on the normalized text (lines stripped and joined),
\* because at every step the two patterns locate the same match, classify it
\* as the same template and keep the same gaps.
C23_EnginesAgree ==
    \A c \in Calls :
        LET normal == flat(transition_log[c])
            alone == Alone(normal, iterations[c])
            s == remaining_log[c]
            own == _PATTERN_search(s)
            core == search(s)
            r == check_invariants(normal)
        IN  /\ <<s, invariant_counts[c]>> = alone
            /\ (own = NoMatch) = (core = NoMatch)
            /\ own # NoMatch =>
                  /\ <<own.start, own.end>> = <<core.start, core.end>>
                  /\ branch(own) = _detect_invariant(core)
                  /\ kept(s, own) = _collect_unmatched_groups(s, core)
            /\ Done(c) =>
                  /\ result[c] = verify_invariants_text(transition_log[c])
                  /\ result[c] = <<r.was_fully_consumed, r.leftover_transitions,
                                   r.invariant_counts>>

\* verify_invariants_text returned for a text of several lines after
\* replacing a match, with a leftover
C23_Witness ==
    \E c \in Calls :
        /\ Done(c)
        /\ iterations[c] > 0
        /\ \E i \in 1..Len(transition_log[c]) : transition_log[c][i] = "\n"
        /\ result[c][2] # <<>>

----------------------------------------------------------------------------
\* the parts print_report is to write for the UI u and the result res
ExpectedReport(u, res) ==
    IF u.quiet THEN <<>>
    ELSE (IF u.decorations_enabled THEN <<"banner">> ELSE <<>>)
         \o <<"counts">>
         \o (IF u.verbose THEN <<"diagnostics">> ELSE <<>>)
         \o (IF res.was_fully_consumed THEN <<"success line">> ELSE <<"leftover preview">>)

\* C24: for every readable input the command line passes the record of
\* check_invariants to print_report, which reads its fully-consumed field
\* and writes, in order, the banner, the counts, the optional diagnostics and
\* then the success line (fully consumed) or the leftover preview (otherwise)
\* without raising; the process then exits with status 0 in both cases.
C24_ReportPrintedExitZero ==
    \A c \in Calls :
        /\ exit_status[c] \in {NotExited, 0}
        /\ exit_status[c] # NotExited =>
              /\ result[c] = main(transition_log[c])
              /\ written[c] = ExpectedReport(ui[c], result[c])

====
